---- MODULE Spec2Model ----
(***************************************************************************)
(* Model of comprehensive-test.py, the conformance test harness of the     *)
(* JMX MCP server: MCPTester (start_server, stop_server, send_request, the *)
(* four test steps, run_all_tests) and main with its SIGINT handler.       *)
(*                                                                         *)
(* The harness is one Python thread.  A signal handler runs on top of the  *)
(* frame it interrupts, so the control state is the position of the main   *)
(* flow (pc) plus a stack of handler frames (hstack); only the topmost     *)
(* frame runs.  The child process and its stdout pipe are the environment. *)
(* The model starts at line 259 (no --help argument) with the handler of   *)
(* line 266 installed.                                                     *)
(***************************************************************************)
EXTENDS Integers, Sequences, FiniteSets, TLC

\* Number of SIGINT deliveries explored in one run.
MaxSigints == 2

\* Tool names a server may list besides the expected ones.
ExtraTools == {"otherTool"}

\* expected_tools of test_list_tools (line 146).
expected_tools ==
    {"listMBeans", "getMBeanInfo", "getAttribute", "setAttribute",
     "listDomains", "getConnectionInfo"}

\* len(tests) of run_all_tests (lines 218-226).
NumTests == 4

(***************************************************************************)
(* JSON values as the steps see them after json.loads.  A value is kept by *)
(* the features the Python operators applied to it distinguish: its type,  *)
(* whether it is empty, which keys or elements it holds.                   *)
(***************************************************************************)

\* The value of "tools" in a result object.
NoTools == [k |-> "absent", names |-> {}, nameless |-> FALSE, nonobj |-> FALSE]

ToolsOfKind(kind) == [NoTools EXCEPT !.k = kind]

ToolsValues ==
    {ToolsOfKind(kind) :
        kind \in {"absent", "null", "num", "emptystr", "str", "emptyobj", "obj"}}
    \cup {[k |-> "list", names |-> ns, nameless |-> FALSE, nonobj |-> FALSE] :
            ns \in SUBSET (expected_tools \cup ExtraTools)}
    \cup {[k |-> "list", names |-> ns, nameless |-> nl, nonobj |-> no] :
            ns \in {{}, expected_tools}, nl \in BOOLEAN, no \in BOOLEAN}

\* The values of "resources" and of "content" in a result object.
FieldKinds ==
    {"absent", "null", "zero", "num", "emptystr", "str",
     "emptylist", "list", "emptyobj", "obj"}

\* The value of "result" in a response object.
NoResult ==
    [k |-> "absent", caps |-> FALSE, tools |-> NoTools,
     resources |-> "absent", content |-> "absent"]

ResultObj == [NoResult EXCEPT !.k = "obj"]

ResultValues ==
    {[NoResult EXCEPT !.k = kind] :
        kind \in {"null", "num", "str", "str_caps", "list", "list_caps"}}
    \cup {[ResultObj EXCEPT !.caps = c] : c \in BOOLEAN}
    \cup {[ResultObj EXCEPT !.tools = t] : t \in ToolsValues}
    \cup {[ResultObj EXCEPT !.resources = r] : r \in FieldKinds}
    \cup {[ResultObj EXCEPT !.content = c] : c \in FieldKinds}

\* A line of the child's stdout, by what json.loads makes of it.
NoLine == [k |-> "none", hasResult |-> FALSE, hasError |-> FALSE, result |-> NoResult]

LineOfKind(kind) == [NoLine EXCEPT !.k = kind]

\* Python None, the "no response" value of send_request.
None == LineOfKind("None")

\* readline() at end of stream: the empty string.
EofLine == LineOfKind("eof")

\* The lines a server can write: unparseable text, a JSON value that is not
\* an object, or an object with or without "result" and "error".
ReplyLines ==
    {LineOfKind(kind) :
        kind \in {"garbage", "null", "zero", "num", "emptystr", "str",
                  "str_result", "emptylist", "list", "list_result"}}
    \cup {[k |-> "obj", hasResult |-> FALSE, hasError |-> e, result |-> NoResult] :
            e \in BOOLEAN}
    \cup {[k |-> "obj", hasResult |-> TRUE, hasError |-> e, result |-> r] :
            e \in BOOLEAN, r \in ResultValues}

(***************************************************************************)
(* Python operators on these values.                                       *)
(***************************************************************************)

\* bool(response): None, 0, false, "", [] and {} are falsy.
Truthy(v) ==
    CASE v.k \in {"None", "null", "zero", "emptystr", "emptylist"} -> FALSE
      [] v.k = "obj" -> v.hasResult \/ v.hasError
      [] OTHER -> TRUE

\* "result" in response: key of a dict, element of a list, substring of a
\* string, TypeError on a number.
HasResult(v) ==
    CASE v.k = "obj" -> IF v.hasResult THEN "yes" ELSE "no"
      [] v.k \in {"str_result", "list_result"} -> "yes"
      [] v.k \in {"str", "emptystr", "list", "emptylist"} -> "no"
      [] OTHER -> "TypeError"

\* response["result"]: only a dict can be indexed by a string.
GetResult(v) == IF v.k = "obj" THEN "ok" ELSE "TypeError"

\* "capabilities" in result.
HasCapabilities(r) ==
    CASE r.k = "obj" -> IF r.caps THEN "yes" ELSE "no"
      [] r.k \in {"str_caps", "list_caps"} -> "yes"
      [] r.k \in {"str", "list"} -> "no"
      [] OTHER -> "TypeError"

\* result.get(...): only a dict has .get (AttributeError otherwise).
HasGet(r) == r.k = "obj"

\* [tool["name"] for tool in tools], lines 148: the names found, or the
\* exception of the first entry that cannot be indexed by "name".
FoundTools(t) ==
    CASE t.k \in {"absent", "emptystr", "emptyobj"} -> [exc |-> FALSE, names |-> {}]
      [] t.k = "list" -> [exc |-> t.nameless \/ t.nonobj, names |-> t.names]
      [] OTHER -> [exc |-> TRUE, names |-> {}]

\* len(resources), line 175: "zero", "pos" or TypeError.
LenOf(f) ==
    CASE f \in {"absent", "emptystr", "emptylist", "emptyobj"} -> "zero"
      [] f \in {"str", "list", "obj"} -> "pos"
      [] OTHER -> "TypeError"

\* not content, line 202.
Falsy(f) == f \in {"absent", "null", "zero", "emptystr", "emptylist", "emptyobj"}

(***************************************************************************)
(* send_request and the four test steps, as functions of what was read.    *)
(***************************************************************************)

\* send_request with a parse error that "except Exception" does not cover.
send_request_uncaught(writeOk, line) ==
    IF ~writeOk \/ line.k = "eof"
    THEN [exc |-> FALSE, val |-> None]
    ELSE [exc |-> line.k = "garbage",
          val |-> IF line.k = "garbage" THEN None ELSE line]

\* send_request, lines 74-90: None when the write raised (caught at line 88),
\* when readline() returned "" (line 83) or when json.loads raised (caught at
\* line 88); otherwise the parsed value.  It never raises an Exception.
send_request(writeOk, line) ==
    IF ~writeOk \/ line.k \in {"eof", "garbage"}
    THEN [exc |-> FALSE, val |-> None]
    ELSE [exc |-> FALSE, val |-> line]

\* The outcome of a step: it returns True, returns False or raises.
Outcomes == {"pass", "fail", "raise"}

\* test_initialize, lines 113-128.
test_initialize(r) ==
    IF r.exc THEN "raise"
    ELSE IF ~Truthy(r.val) THEN "fail"                          \* line 114
    ELSE IF HasResult(r.val) = "TypeError" THEN "raise"         \* line 118
    ELSE IF HasResult(r.val) = "no" THEN "fail"
    ELSE IF GetResult(r.val) = "TypeError" THEN "raise"         \* line 122
    ELSE IF HasCapabilities(r.val.result) = "TypeError" THEN "raise"  \* line 123
    ELSE IF HasCapabilities(r.val.result) = "no" THEN "fail"
    ELSE "pass"

\* "if not response or "result" not in response" followed by
\* response["result"].get(...), lines 141-145, 169-173 and 197-201.
ResultOf(r) ==
    IF r.exc THEN "raise"
    ELSE IF ~Truthy(r.val) THEN "fail"
    ELSE IF HasResult(r.val) = "TypeError" THEN "raise"
    ELSE IF HasResult(r.val) = "no" THEN "fail"
    ELSE IF GetResult(r.val) = "TypeError" THEN "raise"
    ELSE IF ~HasGet(r.val.result) THEN "raise"
    ELSE "ok"

\* A test_list_tools that is content with one expected tool.
test_list_tools_any(r) ==
    IF ResultOf(r) # "ok" THEN ResultOf(r)
    ELSE LET found_tools == FoundTools(r.val.result.tools)
         IN  IF found_tools.exc THEN "raise"
             ELSE IF expected_tools \cap found_tools.names = {} THEN "fail"
             ELSE "pass"

\* test_list_tools, lines 140-156.
test_list_tools(r) ==
    IF ResultOf(r) # "ok" THEN ResultOf(r)
    ELSE LET found_tools == FoundTools(r.val.result.tools)
             missing_tools == expected_tools \ found_tools.names
         IN  IF found_tools.exc THEN "raise"                    \* line 148
             ELSE IF missing_tools # {} THEN "fail"             \* line 151
             ELSE "pass"

\* test_list_resources, lines 168-180.
test_list_resources(r) ==
    IF ResultOf(r) # "ok" THEN ResultOf(r)
    ELSE LET n == LenOf(r.val.result.resources)
         IN  IF n = "TypeError" THEN "raise"                    \* line 175
             ELSE IF n = "zero" THEN "fail"
             ELSE "pass"

\* test_tool_execution, lines 196-207.
test_tool_execution(r) ==
    IF ResultOf(r) # "ok" THEN ResultOf(r)
    ELSE IF Falsy(r.val.result.content) THEN "fail"             \* line 202
    ELSE "pass"

\* tests[n - 1](), the list of lines 218-223.
tests(n, r) ==
    CASE n = 1 -> test_initialize(r)
      [] n = 2 -> test_list_tools(r)
      [] n = 3 -> test_list_resources(r)
      [] n = 4 -> test_tool_execution(r)

\* Request ids where a step reuses the id of the step before it.
RequestIdReused(n) == IF n > 1 THEN n - 1 ELSE n

\* The "id" of the request each step builds (lines 98, 136, 164, 189).
RequestId(n) == n

\* The "method" of the request each step builds (lines 99, 137, 165, 190).
RequestMethod(n) ==
    CASE n = 1 -> "initialize"
      [] n = 2 -> "tools/list"
      [] n = 3 -> "resources/list"
      [] n = 4 -> "tools/call"

(***************************************************************************)
(* State.                                                                  *)
(***************************************************************************)
VARIABLES
    pc,             \* position of the main flow (main, run_all_tests and callees)
    hstack,         \* positions of the signal_handler frames, innermost last
    server_process, \* self.server_process is set (not None)
    child,          \* the child process: "none", "running" or "exited"
    pending,        \* a request was written and the child has not answered it
    pipe,           \* lines in the child's stdout pipe not yet read
    i,              \* index of the step the loop of line 228 is at
    passed,         \* passed, line 225
    completion,     \* how the try block of line 217 is being left
    retval,         \* value of the return statement of lines 239 and 242
    success,        \* success, line 268
    exitCode,       \* exit status of the harness, -1 while it runs
    response,       \* what the send_request of the step just run returned
    startResult,    \* "none", then "ok" or "failed": what start_server returned
    ran,            \* the steps called, in order
    sent,           \* the ids of the requests written to the child, in order
    io,             \* per step: what its send_request met
    outcome,        \* per step: "none", or how the step ended
    stopCalls,      \* number of invocations of stop_server
    stopReturns,    \* number of invocations of stop_server that returned
    signals,        \* signals delivered to the running child, in order
    sigints,        \* number of SIGINTs delivered to the harness
    sigAt           \* position of the main flow at the first SIGINT

vars ==
    <<pc, hstack, server_process, child, pending, pipe, i, passed, completion,
      retval, success, exitCode, response, startResult, ran, sent, io, outcome,
      stopCalls, stopReturns, signals, sigints, sigAt>>

\* The variables of the main flow's locals.
locals == <<i, passed, completion, retval, success>>

\* The variables that record what the steps did.
stepvars == <<response, ran, sent, io, outcome>>

\* The child process and its pipes.
childvars == <<child, pending, pipe>>

\* The interrupt bookkeeping.
sigvars == <<sigints, sigAt>>

Steps == 1..NumTests

\* __init__, lines 16-18, and main up to line 266.
Init ==
    /\ pc = "jar"
    /\ hstack = <<>>
    /\ server_process = FALSE
    /\ child = "none"
    /\ pending = FALSE
    /\ pipe = <<>>
    /\ i = 0
    /\ passed = 0
    /\ completion = "none"
    /\ retval = FALSE
    /\ success = FALSE
    /\ exitCode = -1
    /\ response = NoLine
    /\ startResult = "none"
    /\ ran = <<>>
    /\ sent = <<>>
    /\ io = [n \in Steps |-> "none"]
    /\ outcome = [n \in Steps |-> "none"]
    /\ stopCalls = 0
    /\ stopReturns = 0
    /\ signals = <<>>
    /\ sigints = 0
    /\ sigAt = "none"

\* The main flow runs when no handler frame is on top of it.
MainRuns == hstack = <<>> /\ pc # "exited"

\* The position of the frame that runs.
TopPc == IF hstack = <<>> THEN pc ELSE hstack[Len(hstack)]

\* The frame that runs moves to position p.
SetTop(p) ==
    IF hstack = <<>>
    THEN pc' = p /\ UNCHANGED hstack
    ELSE hstack' = [hstack EXCEPT ![Len(hstack)] = p] /\ UNCHANGED pc

\* Where stop_server returns to: the end of the finally block of line 244 in
\* the main flow, line 264 in a handler frame.
ReturnPc == IF hstack = <<>> THEN "finally_done" ELSE "h_exit"

(***************************************************************************)
(* start_server, lines 20-62, called at line 214.                          *)
(***************************************************************************)

\* run_all_tests that goes on to the steps whatever start_server returned.
AfterStartIgnored(ok) == "try"

\* Line 214: "if not self.start_server(): return False".
AfterStart(ok) == IF ok THEN "try" ELSE "start_failed"

\* Lines 23-27: the JAR is there or start_server returns False.
start_server_jar ==
    /\ MainRuns /\ pc = "jar"
    /\ \E exists \in BOOLEAN :
         IF exists
         THEN pc' = "popen" /\ UNCHANGED startResult
         ELSE pc' = AfterStart(FALSE) /\ startResult' = "failed"
    /\ UNCHANGED <<hstack, server_process, childvars, locals, exitCode,
                   stepvars, stopCalls, stopReturns, signals, sigvars>>

\* subprocess.Popen(...) of line 40: the child is spawned, or Popen raises
\* and line 60 catches it.  The handle is not yet stored.
start_server_popen ==
    /\ MainRuns /\ pc = "popen"
    /\ \E spawned \in BOOLEAN :
         IF spawned
         THEN pc' = "assign" /\ child' = "running" /\ UNCHANGED startResult
         ELSE pc' = AfterStart(FALSE) /\ startResult' = "failed" /\ UNCHANGED child
    /\ UNCHANGED <<hstack, server_process, pending, pipe, locals, exitCode,
                   stepvars, stopCalls, stopReturns, signals, sigvars>>

\* The assignment to self.server_process of line 40.
start_server_assign ==
    /\ MainRuns /\ pc = "assign"
    /\ server_process' = TRUE
    /\ pc' = "sleep"
    /\ UNCHANGED <<hstack, childvars, locals, exitCode, startResult,
                   stepvars, stopCalls, stopReturns, signals, sigvars>>

\* time.sleep(3), line 50.
start_server_sleep ==
    /\ MainRuns /\ pc = "sleep"
    /\ pc' = "poll"
    /\ UNCHANGED <<hstack, server_process, childvars, locals, exitCode,
                   startResult, stepvars, stopCalls, stopReturns, signals, sigvars>>

\* A start_server that does not look at poll().
PollResultReady(c) == "ok"

\* Lines 52-58: False when poll() shows that the child has exited, True
\* otherwise.
PollResult(c) == IF c = "exited" THEN "failed" ELSE "ok"

\* Lines 52-58: poll() tells whether the child has exited.
start_server_poll ==
    /\ MainRuns /\ pc = "poll"
    /\ startResult' = PollResult(child)
    /\ pc' = AfterStart(child # "exited")
    /\ UNCHANGED <<hstack, server_process, childvars, locals, exitCode,
                   stepvars, stopCalls, stopReturns, signals, sigvars>>

\* Line 215: run_all_tests returns False to line 268.
run_all_tests_start_failed ==
    /\ MainRuns /\ pc = "start_failed"
    /\ success' = FALSE
    /\ pc' = "main_exit"
    /\ UNCHANGED <<hstack, server_process, childvars, i, passed, completion,
                   retval, exitCode, startResult, stepvars, stopCalls,
                   stopReturns, signals, sigvars>>

(***************************************************************************)
(* run_all_tests, lines 217-245: the loop over the steps and the finally.  *)
(***************************************************************************)

\* Lines 217-226: the try block is entered, passed = 0.
run_all_tests_try ==
    /\ MainRuns /\ pc = "try"
    /\ passed' = 0
    /\ i' = 1
    /\ pc' = "step_send"
    /\ UNCHANGED <<hstack, server_process, childvars, completion, retval,
                   success, exitCode, startResult, stepvars, stopCalls,
                   stopReturns, signals, sigvars>>

\* Where a step goes once it has its outcome: back to the loop, or out of
\* the try block with its exception.
AfterStep(res) == IF res = "raise" THEN "step_raise" ELSE "loop_check"

\* A send_request that writes its request again instead of reading.
AfterWriteAgain(n) == "step_send"

\* Lines 79-82: after write and flush, send_request reads one line.
AfterWrite(n) == "step_read"

\* A step is called (line 229) and its send_request writes the request,
\* lines 77-79.  The write raises when there is no handle or nobody reads the
\* pipe; line 88 catches that and the step gets None.
step_send ==
    /\ MainRuns /\ pc = "step_send"
    /\ ran' = Append(ran, i)
    /\ IF server_process /\ child = "running"
       THEN /\ sent' = Append(sent, RequestId(i))
            /\ pending' = TRUE
            /\ response' = NoLine
            /\ pc' = AfterWrite(i)
            /\ UNCHANGED <<io, outcome>>
       ELSE LET r == send_request(FALSE, EofLine)
            IN  /\ response' = r.val
                /\ io' = [io EXCEPT ![i] = "writefail"]
                /\ outcome' = [outcome EXCEPT ![i] = tests(i, r)]
                /\ pc' = AfterStep(tests(i, r))
                /\ UNCHANGED <<sent, pending>>
    /\ UNCHANGED <<hstack, server_process, child, pipe, locals, exitCode,
                   startResult, stopCalls, stopReturns, signals, sigvars>>

\* readline() of line 82 returns a line, or "" once the child has exited and
\* the pipe is empty; it blocks otherwise.  Lines 83-90 make the response of
\* it and the step (lines 114-128 and alike) its outcome.
step_recv ==
    /\ MainRuns /\ pc = "step_read"
    /\ pipe # <<>> \/ child = "exited"
    /\ LET line == IF pipe # <<>> THEN Head(pipe) ELSE EofLine
           r == send_request(TRUE, line)
       IN  /\ pipe' = IF pipe # <<>> THEN Tail(pipe) ELSE pipe
           /\ response' = r.val
           /\ io' = [io EXCEPT ![i] =
                        IF line.k \in {"eof", "garbage"} THEN line.k ELSE "parsed"]
           /\ outcome' = [outcome EXCEPT ![i] = tests(i, r)]
           /\ pc' = AfterStep(tests(i, r))
    /\ UNCHANGED <<hstack, server_process, child, pending, locals, exitCode,
                   startResult, ran, sent, stopCalls, stopReturns, signals, sigvars>>

\* A loop that goes on to the next step after a failed one.
LoopTargetNoBreak(ok, idx) == IF idx < NumTests THEN "step_send" ELSE "report"

\* Lines 228-232: the next step after a passed one, "break" after a failed
\* one; line 234 after the loop.
LoopTarget(ok, idx) ==
    IF ok /\ idx < NumTests THEN "step_send" ELSE "report"

\* A count that goes up with every step that returned.
CountEvery(p, ok) == p + 1

\* Lines 229-230: "if test(): passed += 1".
Count(p, ok) == IF ok THEN p + 1 ELSE p

\* Lines 229-232: passed += 1 or break.
loop_next ==
    /\ MainRuns /\ pc = "loop_check"
    /\ passed' = Count(passed, outcome[i] = "pass")
    /\ pc' = LoopTarget(outcome[i] = "pass", i)
    /\ i' = IF LoopTarget(outcome[i] = "pass", i) = "step_send" THEN i + 1 ELSE i
    /\ response' = NoLine
    /\ UNCHANGED <<hstack, server_process, childvars, completion, retval,
                   success, exitCode, startResult, ran, sent, io, outcome,
                   stopCalls, stopReturns, signals, sigvars>>

\* A cleanup that runs only when the try block returns.
FinallyOnReturnOnly(c) == IF c = "return" THEN "stop_check" ELSE "finally_done"

\* A run_all_tests without the finally block.
FinallySkipped(c) == "finally_done"

\* Lines 244-245: however the try block is left, stop_server is called.
FinallyTarget(c) == "stop_check"

\* The try block is left with completion c and the finally block starts.
EnterFinally(c) ==
    /\ completion' = c
    /\ pc' = FinallyTarget(c)
    /\ stopCalls' = IF FinallyTarget(c) = "stop_check" THEN stopCalls + 1 ELSE stopCalls

\* The exception a step raised leaves the try block.
step_raise ==
    /\ MainRuns /\ pc = "step_raise"
    /\ EnterFinally("raise")
    /\ response' = NoLine
    /\ UNCHANGED <<hstack, server_process, childvars, i, passed, retval,
                   success, exitCode, startResult, ran, sent, io, outcome,
                   stopReturns, signals, sigvars>>

\* Lines 234-242: the tally and the return statement.
report ==
    /\ MainRuns /\ pc = "report"
    /\ retval' = (passed = NumTests)
    /\ EnterFinally("return")
    /\ UNCHANGED <<hstack, server_process, childvars, i, passed, success,
                   exitCode, startResult, stepvars, stopReturns, signals, sigvars>>

\* The finally block is over: the return value reaches line 268, an
\* exception goes on to the top level and ends the process with status 1.
finally_done ==
    /\ MainRuns /\ pc = "finally_done"
    /\ IF completion = "return"
       THEN success' = retval /\ pc' = "main_exit" /\ UNCHANGED exitCode
       ELSE pc' = "exited" /\ exitCode' = 1 /\ UNCHANGED success
    /\ UNCHANGED <<hstack, server_process, childvars, i, passed, completion,
                   retval, startResult, stepvars, stopCalls, stopReturns,
                   signals, sigvars>>

\* An exit status with the two cases swapped.
ExitStatusSwapped(ok) == IF ok THEN 1 ELSE 0

\* Line 269: 0 if success else 1.
ExitStatus(ok) == IF ok THEN 0 ELSE 1

\* sys.exit of line 269.
main_exit ==
    /\ MainRuns /\ pc = "main_exit"
    /\ exitCode' = ExitStatus(success)
    /\ pc' = "exited"
    /\ UNCHANGED <<hstack, server_process, childvars, locals, startResult,
                   stepvars, stopCalls, stopReturns, signals, sigvars>>

(***************************************************************************)
(* stop_server, lines 64-72, run by the frame on top: the finally block of *)
(* the main flow or a signal handler.                                      *)
(***************************************************************************)

\* Line 66: nothing to do without a handle.
stop_server_check ==
    /\ pc # "exited" /\ TopPc = "stop_check"
    /\ IF server_process
       THEN SetTop("stop_terminate") /\ UNCHANGED stopReturns
       ELSE SetTop(ReturnPc) /\ stopReturns' = stopReturns + 1
    /\ UNCHANGED <<server_process, childvars, locals, exitCode, startResult,
                   stepvars, stopCalls, signals, sigvars>>

\* terminate(), line 67: Popen.send_signal polls first and sends SIGTERM only
\* to a child that has not exited.
stop_server_terminate ==
    /\ pc # "exited" /\ TopPc = "stop_terminate"
    /\ signals' = IF child = "running" THEN Append(signals, "TERM") ELSE signals
    /\ SetTop("stop_wait")
    /\ UNCHANGED <<server_process, childvars, locals, exitCode, startResult,
                   stepvars, stopCalls, stopReturns, sigvars>>

\* wait(timeout=5), line 69, returns: the child has exited.
stop_server_wait ==
    /\ pc # "exited" /\ TopPc = "stop_wait"
    /\ child = "exited"
    /\ SetTop("stop_print")
    /\ UNCHANGED <<server_process, childvars, locals, exitCode, startResult,
                   stepvars, stopCalls, stopReturns, signals, sigvars>>

\* A wait() without timeout: it blocks as long as the child runs.
stop_server_wait_forever ==
    /\ pc # "exited" /\ TopPc = "stop_wait"
    /\ child = "running"
    /\ UNCHANGED vars

\* wait(timeout=5) raises TimeoutExpired, line 70: the child still runs.
stop_server_timeout ==
    /\ pc # "exited" /\ TopPc = "stop_wait"
    /\ child = "running"
    /\ SetTop("stop_kill")
    /\ UNCHANGED <<server_process, childvars, locals, exitCode, startResult,
                   stepvars, stopCalls, stopReturns, signals, sigvars>>

\* A kill() that leaves the child as it is.
kill_ignored(c) == c

\* What SIGKILL makes of the child: it cannot be caught or ignored.
kill(c) == "exited"

\* kill(), line 71.
stop_server_kill ==
    /\ pc # "exited" /\ TopPc = "stop_kill"
    /\ IF child = "running"
       THEN /\ signals' = Append(signals, "KILL")
            /\ child' = kill(child)
            /\ pending' = FALSE
       ELSE UNCHANGED <<signals, child, pending>>
    /\ SetTop("stop_print")
    /\ UNCHANGED <<server_process, pipe, locals, exitCode, startResult,
                   stepvars, stopCalls, stopReturns, sigvars>>

\* Line 72, and stop_server returns.
stop_server_return ==
    /\ pc # "exited" /\ TopPc = "stop_print"
    /\ stopReturns' = stopReturns + 1
    /\ SetTop(ReturnPc)
    /\ UNCHANGED <<server_process, childvars, locals, exitCode, startResult,
                   stepvars, stopCalls, signals, sigvars>>

(***************************************************************************)
(* signal_handler, lines 261-264.                                          *)
(***************************************************************************)

\* SIGINT is delivered: the handler starts on top of the frame that runs and
\* calls stop_server (lines 262-263).
sigint ==
    /\ pc # "exited"
    /\ sigints < MaxSigints
    /\ sigints' = sigints + 1
    /\ sigAt' = IF sigints = 0 THEN pc ELSE sigAt
    /\ hstack' = Append(hstack, "stop_check")
    /\ stopCalls' = stopCalls + 1
    /\ UNCHANGED <<pc, server_process, childvars, locals, exitCode,
                   startResult, stepvars, stopReturns, signals>>

\* The positions of the main flow inside the try block of lines 217-242.
InTry(p) == p \in {"step_send", "step_read", "loop_check", "step_raise", "report"}

\* A handler without sys.exit: it returns and the interrupted frame goes on.
signal_handler_return ==
    /\ pc # "exited" /\ hstack # <<>> /\ TopPc = "h_exit"
    /\ hstack' = SubSeq(hstack, 1, Len(hstack) - 1)
    /\ UNCHANGED <<pc, server_process, childvars, locals, exitCode,
                   startResult, stepvars, stopCalls, stopReturns, signals,
                   sigvars>>

\* sys.exit(1), line 264: SystemExit leaves the handler frames and is raised
\* where the main flow was interrupted.  No "except Exception" catches it; a
\* main flow inside the try block runs its finally block, anywhere else the
\* process ends with status 1.
signal_handler_exit ==
    /\ pc # "exited" /\ hstack # <<>> /\ TopPc = "h_exit"
    /\ hstack' = <<>>
    /\ response' = NoLine
    /\ IF InTry(pc)
       THEN EnterFinally("sysexit") /\ UNCHANGED exitCode
       ELSE pc' = "exited" /\ exitCode' = 1 /\ UNCHANGED <<completion, stopCalls>>
    /\ UNCHANGED <<server_process, childvars, i, passed, retval, success,
                   startResult, ran, sent, io, outcome, stopReturns, signals,
                   sigvars>>

(***************************************************************************)
(* The child process.                                                      *)
(***************************************************************************)

\* The server answers the request it has read with one line.
server_reply ==
    /\ child = "running" /\ pending
    /\ \E line \in ReplyLines : pipe' = Append(pipe, line)
    /\ pending' = FALSE
    /\ UNCHANGED <<pc, hstack, server_process, child, locals, exitCode,
                   startResult, stepvars, stopCalls, stopReturns, signals, sigvars>>

\* The child exits: by itself, or after SIGTERM.  Its end of the pipes closes.
child_exit ==
    /\ child = "running"
    /\ child' = "exited"
    /\ pending' = FALSE
    /\ UNCHANGED <<pc, hstack, server_process, pipe, locals, exitCode,
                   startResult, stepvars, stopCalls, stopReturns, signals, sigvars>>

Next ==
    \/ start_server_jar
    \/ start_server_popen
    \/ start_server_assign
    \/ start_server_sleep
    \/ start_server_poll
    \/ run_all_tests_start_failed
    \/ run_all_tests_try
    \/ step_send
    \/ step_recv
    \/ loop_next
    \/ step_raise
    \/ report
    \/ finally_done
    \/ main_exit
    \/ stop_server_check
    \/ stop_server_terminate
    \/ stop_server_wait
    \/ stop_server_timeout
    \/ stop_server_kill
    \/ stop_server_return
    \/ sigint
    \/ signal_handler_exit
    \/ server_reply
    \/ child_exit

Spec == Init /\ [][Next]_vars

TypeOK ==
    /\ child \in {"none", "running", "exited"}
    /\ exitCode \in {-1, 0, 1}
    /\ Len(hstack) <= MaxSigints
    /\ Len(pipe) <= 1
    /\ passed \in 0..NumTests

(***************************************************************************)
(* Properties.                                                             *)
(***************************************************************************)

\* m occurs in the sequence q.
InSeq(m, q) == \E n \in 1..Len(q) : q[n] = m

\* Step m was not called and its request was not written.
NotRun(m) == outcome[m] = "none" /\ ~InSeq(m, ran) /\ ~InSeq(RequestId(m), sent)

\* The frame on top has just come back from stop_server.
BackFromStop == pc # "exited" /\ TopPc \in {"h_exit", "finally_done"}

\* C1: once the harness has exited, the child process is not running,
\* however the run ended.
NoOrphanedChild == pc = "exited" => child # "running"

\* C2: if step N returned failure, step N+1 and the later steps are never
\* called and none of their requests is written.
ShortCircuit ==
    \A n \in 1..(NumTests - 1) :
        outcome[n] = "fail" => \A m \in (n + 1)..NumTests : NotRun(m)

\* A run that ended after step 2 had failed.
ShortCircuitWitness ==
    pc = "exited" /\ sigints = 0 /\ outcome[1] = "pass" /\ outcome[2] = "fail"

\* The positions of the main flow from the call of start_server to the end
\* of the try block: the run is in progress.
InRun(p) == p \in {"jar", "popen", "assign", "sleep", "poll", "try"} \/ InTry(p)

\* C3: a single SIGINT that arrives while the run is in progress makes the
\* harness exit with stop_server invoked exactly once.
StopOnceOnInterrupt ==
    (pc = "exited" /\ sigints = 1 /\ InRun(sigAt)) => stopCalls = 1

\* C4: no step raises: whatever the reply, every step returns a boolean.
StepsNeverRaise == \A n \in Steps : outcome[n] # "raise"

\* C5: when the write fails, the stream is closed or the line is not JSON,
\* send_request returns None without raising, the step returns failure and
\* no later step is run.
NoResponseFailsStep ==
    \A n \in Steps :
        io[n] \in {"writefail", "eof", "garbage"} =>
            /\ outcome[n] = "fail"
            /\ (pc = "loop_check" /\ i = n) => response = None
            /\ \A m \in (n + 1)..NumTests : NotRun(m)

\* A run that ended after step 2 had read a line that is not JSON.
NoResponseWitness ==
    pc = "exited" /\ io[2] = "garbage" /\ outcome[2] = "fail" /\ exitCode = 1

\* Every step passed after a successful start.
AllPassed == startResult = "ok" /\ \A n \in Steps : outcome[n] = "pass"

\* C6: the harness exits with 0 if the four steps passed and no SIGINT
\* arrived, and with 1 in every other case.
ExitCodeRule ==
    pc = "exited" => exitCode = IF AllPassed /\ sigints = 0 THEN 0 ELSE 1

\* A run in which every step passed and that exited with 0.
ExitCodeWitness == pc = "exited" /\ AllPassed /\ exitCode = 0

\* C7: when stop_server has returned, the child process is not running.
StopLeavesNoChild == BackFromStop => child # "running"

\* C8: stop_server without a handle does nothing, and once one invocation of
\* stop_server has returned, no later one sends a signal to a live child.
StopIdempotent ==
    [][/\ stopReturns >= 1 => signals' = signals
       /\ ~server_process' =>
            /\ signals' = <<>>
            /\ TopPc' \notin {"stop_terminate", "stop_wait", "stop_kill", "stop_print"}
      ]_vars

\* Two invocations of stop_server have returned, the first one after it had
\* to kill the child.
StopIdempotentWitness ==
    stopReturns >= 2 /\ signals = <<"TERM", "KILL">>

\* C9 as stated: stop_server is invoked on every exit path.
StopOnEveryExit == pc = "exited" => stopCalls >= 1

\* C9, amended: stop_server is invoked on every exit path of a run whose
\* start_server succeeded and of an interrupted run, and only on those: a
\* launch failure without interrupt exits without it.
StopOnExitAfterStart ==
    pc = "exited" => (stopCalls >= 1 <=> (startResult = "ok" \/ sigints >= 1))

\* A run without interrupt whose first step raised, ended with stop_server
\* invoked once.
StopOnExitWitness ==
    pc = "exited" /\ sigints = 0 /\ outcome[1] = "raise" /\ stopCalls = 1

\* C10: after start_server returned failure no step is called, no request
\* is written and the harness exits with 1.
LaunchFailureAborts ==
    startResult = "failed" =>
        /\ ran = <<>>
        /\ sent = <<>>
        /\ pc = "exited" => exitCode = 1

\* The child exited during the grace period and the harness has exited.
LaunchFailureWitness ==
    pc = "exited" /\ startResult = "failed" /\ child = "exited" /\ sigints = 0

\* The number of steps that returned True.
PassedSteps == Cardinality({n \in Steps : outcome[n] = "pass"})

\* Lines 234-242 have printed the tally and chosen the return value.
TallyReported == completion = "return"

PassNeedsNoError ==
    (pc = "loop_check" /\ outcome[i] = "pass") =>
        response.hasResult /\ ~response.hasError

\* The requests written and the steps called are the first ones of the fixed
\* sequence, each once and in order.
IsPrefix(q, f(_)) == Len(q) <= NumTests /\ \A n \in 1..Len(q) : q[n] = f(n)

\* The step itself, as the n-th step called.
StepAt(n) == n

\* C13: the requests written are a prefix of initialize (id 1), tools/list
\* (id 2), resources/list (id 3), tools/call (id 4): the steps are called
\* in order, each at most once, and the ids are distinct and increasing.
FixedSequence ==
    /\ IsPrefix(ran, StepAt)
    /\ IsPrefix(sent, RequestId)
    /\ Len(sent) <= Len(ran)
    /\ \A m, n \in 1..Len(sent) : m < n => sent[m] < sent[n]
    /\ \A n \in 1..Len(sent) :
           /\ sent[n] = n
           /\ RequestMethod(ran[n]) =
                <<"initialize", "tools/list", "resources/list", "tools/call">>[n]

\* All four requests were written and the harness has exited.
FixedSequenceWitness == pc = "exited" /\ sent = <<1, 2, 3, 4>> /\ ran = <<1, 2, 3, 4>>

\* The send_request of step n has read its line or met the end of the stream.
ReadDone(n) == io[n] \in {"eof", "garbage", "parsed"}

\* C14: at most one request is outstanding: every request written before the
\* latest one has had its reply line (or the end of the stream) read, and
\* the child's stdout never holds more than one unread line.
OneOutstanding ==
    /\ \A n \in 1..(Len(sent) - 1) : ReadDone(ran[n])
    /\ Len(pipe) + (IF pending THEN 1 ELSE 0) <= 1
    /\ Cardinality({n \in 1..Len(sent) : ~ReadDone(ran[n])}) <= 1

\* The second request is written and not yet answered; the first was read.
OneOutstandingWitness ==
    pc = "step_read" /\ sent = <<1, 2>> /\ pending /\ ReadDone(1) /\ ~ReadDone(2)

\* The response is an object whose result is an object with a tool list in
\* which every entry is an object with a name.
NamedToolList(v) ==
    /\ v.k = "obj" /\ v.hasResult /\ v.result.k = "obj"
    /\ v.result.tools.k = "list"
    /\ ~v.result.tools.nameless /\ ~v.result.tools.nonobj

StepInterrupted == sigAt \in {"step_send", "step_read"}

\* C16: after a SIGINT the harness exits with 1 and with the child, if one
\* was spawned, terminated; a step that was interrupted has no outcome and
\* no tally is reported.
InterruptCleansUp ==
    /\ (pc = "exited" /\ sigints >= 1) => (exitCode = 1 /\ child \in {"none", "exited"})
    /\ (sigints >= 1 /\ StepInterrupted) => (outcome[i] = "none" /\ ~TallyReported)

\* start_server returns in this step.
StartReturns == startResult = "none" /\ startResult' # "none"

\* C17 as stated: start_server reports failure only when the child has
\* exited by the end of the settle interval.
FailsOnlyOnExitedChild ==
    [][(StartReturns /\ startResult' = "failed") => (pc = "poll" /\ child = "exited")]_vars

\* C17, amended: start_server reports failure when the JAR is missing, when
\* spawning raises, or when the child has exited by the end of the settle
\* interval; otherwise it reports readiness, with the one child it spawned
\* running and its handle stored.
StartFailureConditions ==
    [][StartReturns =>
        IF startResult' = "failed"
        THEN \/ pc = "jar" /\ child = "none"
             \/ pc = "popen" /\ child' = "none"
             \/ pc = "poll" /\ child = "exited"
        ELSE /\ startResult' = "ok"
             /\ pc = "poll" /\ child = "running" /\ server_process
      ]_vars

\* start_server has returned failure for a missing JAR: nothing was spawned.
StartFailureWitness ==
    pc = "start_failed" /\ startResult = "failed" /\ child = "none" /\ ~server_process

(***************************************************************************)
(* Termination.  The runs are those of Spec with the replies drawn from    *)
(* one line per way a step can end, a harness that takes its next step     *)
(* whenever it has one (wait(timeout=5) included: the timeout elapses),    *)
(* and a server that answers a request it has read unless it exits.        *)
(***************************************************************************)

\* A result object with everything the four steps look for.
FullResult ==
    [k |-> "obj", caps |-> TRUE,
     tools |-> [k |-> "list", names |-> expected_tools,
                nameless |-> FALSE, nonobj |-> FALSE],
     resources |-> "list", content |-> "list"]

\* One reply line for each way a step can end: unparseable, raising,
\* failing, passing.
SomeReplyLines ==
    {LineOfKind("garbage"), LineOfKind("num"),
     [k |-> "obj", hasResult |-> FALSE, hasError |-> TRUE, result |-> NoResult],
     [k |-> "obj", hasResult |-> TRUE, hasError |-> FALSE, result |-> FullResult]}

\* The server answers the request it has read with one of these lines.
server_reply_some ==
    /\ child = "running" /\ pending
    /\ \E line \in SomeReplyLines : pipe' = Append(pipe, line)
    /\ pending' = FALSE
    /\ UNCHANGED <<pc, hstack, server_process, child, locals, exitCode,
                   startResult, stepvars, stopCalls, stopReturns, signals, sigvars>>

\* The steps of the harness itself.
Harness ==
    \/ start_server_jar
    \/ start_server_popen
    \/ start_server_assign
    \/ start_server_sleep
    \/ start_server_poll
    \/ run_all_tests_start_failed
    \/ run_all_tests_try
    \/ step_send
    \/ step_recv
    \/ loop_next
    \/ step_raise
    \/ report
    \/ finally_done
    \/ main_exit
    \/ stop_server_check
    \/ stop_server_terminate
    \/ stop_server_wait
    \/ stop_server_timeout
    \/ stop_server_kill
    \/ stop_server_return
    \/ signal_handler_exit

NextSome ==
    \/ Harness
    \/ sigint
    \/ server_reply_some
    \/ child_exit

FairSpec ==
    /\ Init /\ [][NextSome]_vars
    /\ WF_vars(Harness)
    /\ WF_vars(server_reply_some)

\* The main flow is blocked in readline(): no line, child alive.
BlockedInRead ==
    pc = "step_read" /\ hstack = <<>> /\ pipe = <<>> /\ child = "running"

\* C18: with a server that answers or closes its stream and a stop timeout
\* that elapses, every run reaches the exit of the harness; and a harness
\* blocked in the read leaves it only by a reply, the exit of the child or
\* an interrupt.
Termination ==
    /\ <>(pc = "exited")
    /\ [][BlockedInRead => (pipe' # pipe \/ child' # child \/ sigints' # sigints)]_vars

\* The harness is blocked in the read of the first step.
TerminationWitness == BlockedInRead /\ sent = <<1>> /\ pending /\ sigints = 0

\* C19: when a step raises, no later step is run, stop_server is invoked
\* from the finally block before the exception leaves run_all_tests, and the
\* harness does not exit with 0.
RaiseStillCleansUp ==
    \A n \in Steps :
        outcome[n] = "raise" =>
            /\ \A m \in (n + 1)..NumTests : NotRun(m)
            /\ ~TallyReported
            /\ pc \in {"finally_done", "exited"} => stopCalls >= 1
            /\ (pc \in {"finally_done", "exited"} /\ sigints = 0) =>
                   completion = "raise" /\ stopCalls = 1 /\ stopReturns = 1
            /\ pc = "exited" => exitCode = 1

\* A run without interrupt whose second step raised: stop_server ran once
\* and the harness exited with 1.
RaiseCleanupWitness ==
    /\ pc = "exited" /\ sigints = 0 /\ outcome[2] = "raise"
    /\ stopReturns = 1 /\ exitCode = 1

\* C20: a request is written only after start_server returned success and
\* before the first invocation of stop_server.
RequestsOnlyWhileStarted ==
    [][sent' # sent => (startResult = "ok" /\ stopCalls = 0 /\ hstack = <<>>)]_vars

\* A request was written and the run was then interrupted in its read.
RequestsWitness ==
    pc = "exited" /\ sent = <<1>> /\ sigAt = "step_read" /\ stopCalls >= 1

====
